---- MODULE Spec2Model ----
(***************************************************************************)
(* The epidemic simulation front end of src/frontend/script.js as a state  *)
(* machine: the run lifecycle (start / stop / reset), the local (fallback) *)
(* step, the service-driven step, the quarantine animations and the        *)
(* telemetry chart.                                                        *)
(*                                                                         *)
(* Conventions.                                                            *)
(*   - Coordinates are integers in units of 1/10000 of the canvas.         *)
(*   - Probabilities are integers in percent; Math.random() < rate is a    *)
(*     nondeterministic draw (DrawOutcomes).                               *)
(*   - Time is kept relative: an animation record holds elapsed            *)
(*     (= Date.now() - startTime, in ms) instead of startTime, and the     *)
(*     action TimePasses advances every record's elapsed.                  *)
(*   - A JavaScript undefined number is the value Undefined.               *)
(***************************************************************************)
EXTENDS Integers, Sequences, FiniteSets, TLC

\* ------------------------------------------------------------------ bounds
NodeCount == 3
MaxStep == 24
MaxRuns == 2
RestartSteps == 1
RestartFrom == 1
MaxClicks == 4
MaxServiceStep == 2
MaxChartCalls == 103
MaxSparseCalls == 2
AnimMaxClicks == 3
AnimMaxStep == 1
TimeQuantum == 1000
EaseFine == 50
EaseCoarse == 350
EaseMaxStep == 1
SlotMaxId == 120
TopoCount == 6
TopoSources == 1

\* --------------------------------------------------------- program constants
ANIMATION_DURATION == 1000
QuarantineAfter == 7
ResolveAfter == 14
ReleaseAfter == 14
maxDataPoints == 100

Undefined == -1
Null == 0

QUARANTINE_AREA == [x |-> 7000, y |-> 7000, width |-> 2500, height |-> 2500]

Compartments == {"healthy", "infected", "recovered", "quarantined", "deceased"}

Ids == 0 .. (NodeCount - 1)

Min(a, b) == IF a < b THEN a ELSE b
Max(a, b) == IF a > b THEN a ELSE b

\* JavaScript truthiness of a number-or-undefined value: !v
Falsy(v) == v = Undefined \/ v = 0

\* Math.random() < rate, rate in percent: Math.random() is in [0, 1)
DrawOutcomes(rate) ==
    IF rate <= 0 THEN {FALSE}
    ELSE IF rate >= 100 THEN {TRUE}
    ELSE {TRUE, FALSE}

\* The slider settings a run can be started with (rates in percent).
Settings ==
    { [infectionRate |-> 100, recoveryRate |-> 100, deathRate |-> 0,
       quarantineRate |-> 100, initialInfected |-> 1],
      [infectionRate |-> 50,  recoveryRate |-> 0,   deathRate |-> 100,
       quarantineRate |-> 0,   initialInfected |-> 2],
      [infectionRate |-> 0,   recoveryRate |-> 50,  deathRate |-> 50,
       quarantineRate |-> 50,  initialInfected |-> 1] }

\* The slider settings at the time a start request fails.
FailoverSettings == { s \in Settings : s.quarantineRate = 100 }

RatesOf(setting) ==
    [infectionRate |-> setting.infectionRate, recoveryRate |-> setting.recoveryRate,
     deathRate |-> setting.deathRate, quarantineRate |-> setting.quarantineRate]

NoRates == [infectionRate |-> Undefined, recoveryRate |-> Undefined,
            deathRate |-> Undefined, quarantineRate |-> Undefined]

VARIABLES
    phase,              \* position of initialize(): "probe", "load", "ready"
    backendConnected,   \* simulation.backendConnected
    running,            \* simulation.running
    step,               \* simulation.step
    rates,              \* simulation.infectionRate .. quarantineRate
    nodes,              \* simulation.nodes
    edges,              \* simulation.edges
    nodeAnimations,     \* the Map nodeAnimations
    animationFrameId,   \* animationFrameId (Null or a handle)
    rafCurrent,         \* the callback of handle animationFrameId is pending
    rafStale,           \* pending animation-frame callbacks of older handles
    fallbackTimers,     \* pending setTimeout(fallbackSimulationLoop) callbacks
    stepTimers,         \* pending setTimeout(simulationLoop) callbacks
    startRequests,      \* startSimulation calls awaiting simulation/start
    stepRequests,       \* simulationLoop calls awaiting simulation/step
    stopRequests,       \* stopSimulation calls awaiting simulation/stop
    networkRequests,    \* loadNetwork calls awaiting network
    chartData,          \* realtimeChart.data
    startBtnDisabled,   \* startBtn.disabled
    pauseBtnDisabled,   \* pauseBtn.disabled
    resetBtnDisabled,   \* resetBtn.disabled
    runs,               \* number of clicks on startBtn so far (observation only)
    clicks,             \* number of clicks on any control so far (observation only)
    lastClick,          \* the control clicked last: "start", "reset", "stop" (pause in a
                        \* running run), "stopIdle" (pause otherwise); observation only
    lastOp              \* the lifecycle or step handler that ran last (observation only)

vars == << phase, backendConnected, running, step, rates, nodes, edges,
           nodeAnimations, animationFrameId, rafCurrent, rafStale,
           fallbackTimers, stepTimers, startRequests, stepRequests,
           stopRequests, networkRequests, chartData,
           startBtnDisabled, pauseBtnDisabled, resetBtnDisabled, runs, clicks, lastClick, lastOp >>

\* The mutable program state as one record, so that handlers compose.
Machine ==
    [ backendConnected |-> backendConnected, running |-> running, step |-> step,
      rates |-> rates, nodes |-> nodes, edges |-> edges,
      nodeAnimations |-> nodeAnimations, animationFrameId |-> animationFrameId,
      rafCurrent |-> rafCurrent, rafStale |-> rafStale,
      fallbackTimers |-> fallbackTimers, stepTimers |-> stepTimers,
      startRequests |-> startRequests, stepRequests |-> stepRequests,
      stopRequests |-> stopRequests, networkRequests |-> networkRequests,
      chartData |-> chartData, startBtnDisabled |-> startBtnDisabled,
      pauseBtnDisabled |-> pauseBtnDisabled, resetBtnDisabled |-> resetBtnDisabled ]

Becomes(m) ==
    /\ backendConnected' = m.backendConnected
    /\ running' = m.running
    /\ step' = m.step
    /\ rates' = m.rates
    /\ nodes' = m.nodes
    /\ edges' = m.edges
    /\ nodeAnimations' = m.nodeAnimations
    /\ animationFrameId' = m.animationFrameId
    /\ rafCurrent' = m.rafCurrent
    /\ rafStale' = m.rafStale
    /\ fallbackTimers' = m.fallbackTimers
    /\ stepTimers' = m.stepTimers
    /\ startRequests' = m.startRequests
    /\ stepRequests' = m.stepRequests
    /\ stopRequests' = m.stopRequests
    /\ networkRequests' = m.networkRequests
    /\ chartData' = m.chartData
    /\ startBtnDisabled' = m.startBtnDisabled
    /\ pauseBtnDisabled' = m.pauseBtnDisabled
    /\ resetBtnDisabled' = m.resetBtnDisabled

\* ------------------------------------------------------------------ chart
EmptyChart ==
    [healthy |-> << >>, infected |-> << >>, recovered |-> << >>,
     quarantined |-> << >>, deceased |-> << >>, timestamps |-> << >>]

\* stats.quarantined || 0
OrZero(v) == IF Falsy(v) THEN 0 ELSE v

\* An eviction that evicts nothing.
Shift_Nothing(s) == s

\* An eviction at the wrong end: pop() for shift().
Shift_DropsNewest(s) == IF Len(s) = 0 THEN s ELSE SubSeq(s, 1, Len(s) - 1)

\* Array.prototype.shift()
Shift(s) == IF Len(s) = 0 THEN s ELSE Tail(s)

\* RealtimeChart.addDataPoint(stats, step)
AddDataPoint(data, stats, stepIndex) ==
    LET pushed == [healthy     |-> Append(data.healthy, stats.healthy),
                   infected    |-> Append(data.infected, stats.infected),
                   recovered   |-> Append(data.recovered, stats.recovered),
                   quarantined |-> Append(data.quarantined, OrZero(stats.quarantined)),
                   deceased    |-> Append(data.deceased, OrZero(stats.deceased)),
                   timestamps  |-> Append(data.timestamps, stepIndex)]
    IN  IF Len(pushed.healthy) > maxDataPoints
        THEN [healthy     |-> Shift(pushed.healthy),
              infected    |-> Shift(pushed.infected),
              recovered   |-> Shift(pushed.recovered),
              quarantined |-> Shift(pushed.quarantined),
              deceased    |-> Shift(pushed.deceased),
              timestamps  |-> Shift(pushed.timestamps)]
        ELSE pushed

\* simulation.nodes.filter(n => n.state === c).length
CountState(ns, c) == Cardinality({i \in DOMAIN ns : ns[i].state = c})

\* A tally that counts a quarantined node among the infected as well.
LocalStats_QuarantinedCountedTwice(ns) ==
    [healthy     |-> CountState(ns, "healthy"),
     infected    |->   CountState(ns, "infected")
                     + CountState(ns, "quarantined"),
     recovered   |-> CountState(ns, "recovered"),
     quarantined |-> CountState(ns, "quarantined"),
     deceased    |-> CountState(ns, "deceased")]

\* The stats object fallbackSimulationLoop builds.
LocalStats(ns) ==
    [healthy     |-> CountState(ns, "healthy"),
     infected    |-> CountState(ns, "infected"),
     recovered   |-> CountState(ns, "recovered"),
     quarantined |-> CountState(ns, "quarantined"),
     deceased    |-> CountState(ns, "deceased")]

\* --------------------------------------------------------------- controls
UpdateControls(m) ==
    [m EXCEPT !.startBtnDisabled = m.running,
              !.pauseBtnDisabled = ~m.running,
              !.resetBtnDisabled = m.running]

\* ------------------------------------------------------------- animations
SetAnimation(anims, id, rec) ==
    [k \in (DOMAIN anims) \cup {id} |-> IF k = id THEN rec ELSE anims[k]]

RemoveAnimations(anims, ids) ==
    [k \in (DOMAIN anims) \ ids |-> anims[k]]

\* The quarantine slot of an identity, before clamping.
SlotX(id) ==
    QUARANTINE_AREA.x + (id % 10) * (QUARANTINE_AREA.width \div 10)
        + (QUARANTINE_AREA.width * 5) \div 100
SlotY(id) ==
    QUARANTINE_AREA.y + ((id % 100) \div 10) * (QUARANTINE_AREA.height \div 10)
        + (QUARANTINE_AREA.height * 5) \div 100

\* A slot that neither wraps its column nor is clamped.
FinalX_Unwrapped(id) ==
    QUARANTINE_AREA.x + id * (QUARANTINE_AREA.width \div 10)
        + (QUARANTINE_AREA.width * 5) \div 100

\* "Ensure within bounds": 0.01 is 100 units
FinalX(id) ==
    Min(QUARANTINE_AREA.x + QUARANTINE_AREA.width - 100,
        Max(QUARANTINE_AREA.x + 100, SlotX(id)))
FinalY(id) ==
    Min(QUARANTINE_AREA.y + QUARANTINE_AREA.height - 100,
        Max(QUARANTINE_AREA.y + 100, SlotY(id)))

\* startQuarantineAnimation(node), node = m.nodes[i]
StartQuarantineAnimation(m, i) ==
    LET node  == m.nodes[i]
        saved == IF Falsy(node.originalX) \/ Falsy(node.originalY)
                 THEN [node EXCEPT !.originalX = node.x, !.originalY = node.y]
                 ELSE node
    IN  [m EXCEPT !.nodes = [m.nodes EXCEPT ![i] = saved],
                  !.nodeAnimations =
                      SetAnimation(m.nodeAnimations, node.id,
                          [startX |-> node.x, startY |-> node.y,
                           targetX |-> FinalX(node.id), targetY |-> FinalY(node.id),
                           elapsed |-> 0, duration |-> ANIMATION_DURATION])]

\* endQuarantineAnimation(node), node = m.nodes[i]
EndQuarantineAnimation(m, i) ==
    LET node == m.nodes[i]
    IN  IF node.originalX # Undefined /\ node.originalY # Undefined
        THEN [m EXCEPT !.nodeAnimations =
                 SetAnimation(m.nodeAnimations, node.id,
                     [startX |-> node.x, startY |-> node.y,
                      targetX |-> node.originalX, targetY |-> node.originalY,
                      elapsed |-> 0, duration |-> ANIMATION_DURATION])]
        ELSE m

\* progress = Math.min(elapsed / duration, 1), in thousandths
Progress(anim) == Min((anim.elapsed * 1000) \div anim.duration, 1000)

\* An easing that forgets the leading "1 -".
EaseProgress_Inverted(p) == ((1000 - p) * (1000 - p) * (1000 - p)) \div 1000000

\* easeProgress = 1 - Math.pow(1 - progress, 3), in thousandths
EaseProgress(p) == 1000 - (((1000 - p) * (1000 - p) * (1000 - p)) \div 1000000)

Interpolate(from, to, ease) == from + ((to - from) * ease) \div 1000

\* The node of a record, simulation.nodes.find(n => n.id === nodeId)
FindNode(ns, id) == {i \in DOMAIN ns : ns[i].id = id}

\* One node after updateAnimations has handled its record.
AnimatedNode(node, anim) ==
    LET p    == Progress(anim)
        e    == EaseProgress(p)
        mid  == [node EXCEPT !.x = Interpolate(anim.startX, anim.targetX, e),
                             !.y = Interpolate(anim.startY, anim.targetY, e)]
        done == [node EXCEPT !.x = anim.targetX, !.y = anim.targetY]
    IN  IF p >= 1000
        THEN IF node.state # "quarantined"
             THEN [done EXCEPT !.originalX = Undefined, !.originalY = Undefined]
             ELSE done
        ELSE mid

\* An updateAnimations that skips a record without a node and keeps it.
UpdateAnimations_KeepsOrphans(m) ==
    LET anims    == m.nodeAnimations
        orphan   == {id \in DOMAIN anims : FindNode(m.nodes, id) = {}}
        finished == {id \in (DOMAIN anims) \ orphan : Progress(anims[id]) >= 1000}
    IN  [m EXCEPT
           !.nodes = [i \in DOMAIN m.nodes |->
                        IF m.nodes[i].id \in (DOMAIN anims)
                           /\ i = CHOOSE j \in FindNode(m.nodes, m.nodes[i].id) :
                                      \A k \in FindNode(m.nodes, m.nodes[i].id) : j <= k
                        THEN AnimatedNode(m.nodes[i], anims[m.nodes[i].id])
                        ELSE m.nodes[i]],
           !.nodeAnimations = RemoveAnimations(anims, finished)]

\* updateAnimations()
UpdateAnimations(m) ==
    LET anims    == m.nodeAnimations
        orphan   == {id \in DOMAIN anims : FindNode(m.nodes, id) = {}}
        finished == {id \in (DOMAIN anims) \ orphan : Progress(anims[id]) >= 1000}
    IN  [m EXCEPT
           !.nodes = [i \in DOMAIN m.nodes |->
                        IF m.nodes[i].id \in (DOMAIN anims)
                           /\ i = CHOOSE j \in FindNode(m.nodes, m.nodes[i].id) :
                                      \A k \in FindNode(m.nodes, m.nodes[i].id) : j <= k
                        THEN AnimatedNode(m.nodes[i], anims[m.nodes[i].id])
                        ELSE m.nodes[i]],
           !.nodeAnimations = RemoveAnimations(anims, orphan \cup finished)]

\* requestAnimationFrame(animationLoop): a new handle replaces animationFrameId;
\* a still pending callback of the old handle stays pending.
RequestFrame(m) ==
    [m EXCEPT !.animationFrameId = 1,
              !.rafCurrent = TRUE,
              !.rafStale = m.rafStale + (IF m.rafCurrent THEN 1 ELSE 0)]

\* cancelAnimationFrame(animationFrameId); animationFrameId = null
CancelFrame(m) ==
    [m EXCEPT !.animationFrameId = Null, !.rafCurrent = FALSE]

\* A loop that requests its next frame whatever the state.
AnimationLoop_AlwaysReschedules(m) == RequestFrame(UpdateAnimations(m))

\* animationLoop()
AnimationLoop(m) ==
    IF m.running \/ DOMAIN m.nodeAnimations # {}
    THEN RequestFrame(UpdateAnimations(m))
    ELSE IF m.animationFrameId # Null THEN CancelFrame(m) ELSE m

\* ------------------------------------------------------------- local step
Infect(ns, i) ==
    [ns EXCEPT ![i] = [@ EXCEPT !.state = "infected", !.infectionTime = 0]]

\* An exposure test that only looks from an edge's source to its target.
Exposed_SourceOnly(source, target) ==
    source.state = "infected" /\ target.state = "healthy"

\* An exposure test that forgets to ask whether the neighbour is healthy.
Exposed_AnyNeighbour(source, target) ==
    \/ source.state = "infected" /\ target.state # "infected"
    \/ target.state = "infected" /\ source.state # "infected"

\* The condition under which an edge is drawn for.
Exposed(source, target) ==
    \/ source.state = "infected" /\ target.state = "healthy"
    \/ target.state = "infected" /\ source.state = "healthy"

\* A quarantine test that is one day early.
QuarantineDue_OneDayEarly(t) == t >= QuarantineAfter

\* A quarantine test that is open from the first day of an infection.
QuarantineDue_FromFirstDay(t) == t > 0

\* node.infectionTime > 7
QuarantineDue(t) == t > QuarantineAfter

\* node.infectionTime > 14
InfectionResolves(t) == t > ResolveAfter

\* A release test that is one day early.
QuarantineEnds_OneDayEarly(t) == t >= ReleaseAfter

\* node.quarantineTime > 14
QuarantineEnds(t) == t > ReleaseAfter

\* The transmission loop from edge number e on: the node arrays it can end with.
RECURSIVE Transmission(_, _, _, _)
Transmission(ns, es, e, rate) ==
    IF e > Len(es) THEN {ns}
    ELSE LET source == ns[es[e].source]
             target == ns[es[e].target]
         IN  IF ~Exposed(source, target) THEN Transmission(ns, es, e + 1, rate)
             ELSE UNION { IF hit
                          THEN Transmission(
                                   Infect(ns, IF source.state = "healthy"
                                              THEN es[e].source ELSE es[e].target),
                                   es, e + 1, rate)
                          ELSE Transmission(ns, es, e + 1, rate)
                        : hit \in DrawOutcomes(rate) }

SetState(m, i, s) == [m EXCEPT !.nodes[i].state = s]

\* The body of the node loop for an infected node, with the outcomes of its draws.
InfectedNode(m, i, quarantineHit, deathHit, recoveryHit) ==
    LET t  == m.nodes[i].infectionTime + 1
        m1 == [m EXCEPT !.nodes[i].infectionTime = t]
        m2 == IF QuarantineDue(t) /\ quarantineHit
              THEN StartQuarantineAnimation(
                       [m1 EXCEPT !.nodes[i].state = "quarantined",
                                  !.nodes[i].quarantineTime = 0], i)
              ELSE m1
    IN  IF InfectionResolves(t)
        THEN IF deathHit THEN SetState(m2, i, "deceased")
             ELSE IF recoveryHit THEN SetState(m2, i, "recovered")
             ELSE m2
        ELSE m2

\* The body of the node loop for a quarantined node.
QuarantinedNode(m, i, recoveryHit) ==
    LET t  == m.nodes[i].quarantineTime + 1
        m1 == [m EXCEPT !.nodes[i].quarantineTime = t]
    IN  IF QuarantineEnds(t) /\ recoveryHit
        THEN EndQuarantineAnimation(SetState(m1, i, "recovered"), i)
        ELSE m1

\* A draw that the code makes only under cond.
DrawIf(cond, rate) == IF cond THEN DrawOutcomes(rate) ELSE {FALSE}

\* The node loop body for node i: the machines it can end with.
ProgressNode(m, i) ==
    LET node == m.nodes[i]
    IN  IF node.state = "infected"
        THEN { InfectedNode(m, i, q, d, r) :
                 q \in DrawIf(QuarantineDue(node.infectionTime + 1), m.rates.quarantineRate),
                 d \in DrawIf(InfectionResolves(node.infectionTime + 1), m.rates.deathRate),
                 r \in DrawIf(InfectionResolves(node.infectionTime + 1), m.rates.recoveryRate) }
        ELSE IF node.state = "quarantined"
        THEN { QuarantinedNode(m, i, r) :
                 r \in DrawIf(QuarantineEnds(node.quarantineTime + 1), m.rates.recoveryRate) }
        ELSE {m}

\* The node loop from node i on.
RECURSIVE Progression(_, _)
Progression(m, i) ==
    IF i \notin DOMAIN m.nodes THEN {m}
    ELSE UNION { Progression(m1, i + 1) : m1 \in ProgressNode(m, i) }

\* Both loops of fallbackSimulationLoop.
LocalStep(m) ==
    UNION { Progression([m EXCEPT !.nodes = ns], 0) :
              ns \in Transmission(m.nodes, m.edges, 1, m.rates.infectionRate) }

\* The tail of fallbackSimulationLoop, after the two loops.
AfterLocalStep(m) ==
    LET m1 == [m EXCEPT !.step = m.step + 1]
        m2 == [m1 EXCEPT !.chartData =
                  AddDataPoint(m1.chartData, LocalStats(m1.nodes), m1.step)]
        m3 == IF m2.animationFrameId = Null THEN AnimationLoop(m2) ELSE m2
    IN  IF m3.running
        THEN [m3 EXCEPT !.fallbackTimers = m3.fallbackTimers + 1]
        ELSE m3

\* fallbackSimulationLoop()
FallbackSimulationLoop(m) ==
    IF ~m.running \/ m.backendConnected THEN {m}
    ELSE { AfterLocalStep(m1) : m1 \in LocalStep(m) }

\* ---------------------------------------------------------------- topology
NoAnimations == [k \in {} |-> Null]

\* Positions createFallbackNetwork can draw: Math.random() * 0.5 + 0.1
Layouts == { [i \in Ids |-> [x |-> 1000 + 1000 * (i % 5), y |-> 3000]] }

\* Edge lists createFallbackNetwork can draw: a chain 0-1-..., or none at all
\* (every attempt of a node may hit the node itself and is then skipped).
ChainEdges == [e \in 1 .. (NodeCount - 1) |-> [source |-> e - 1, target |-> e]]
EdgeChoices == { ChainEdges, << >> }

\* createFallbackNetwork()
CreateFallbackNetwork(m, layout, es) ==
    [m EXCEPT
       !.nodes = [i \in Ids |->
                    [id |-> i, x |-> layout[i].x, y |-> layout[i].y, state |-> "healthy",
                     infectionTime |-> Undefined, quarantineTime |-> Undefined,
                     originalX |-> Undefined, originalY |-> Undefined]],
       !.edges = es]

\* --------------------------------------------------------- local lifecycle
\* The seeding loop of startFallbackSimulation: picks[j] is the j-th randomIndex.
RECURSIVE Seed(_, _, _)
Seed(ns, picks, j) ==
    IF j > Len(picks) THEN ns
    ELSE Seed(Infect(ns, picks[j]), picks, j + 1)

\* The two loops that open startFallbackSimulation: all nodes healthy with
\* zero counters, then Len(picks) = initialInfected draws of a node to infect.
SeededNodes(ns, picks) ==
    Seed([i \in DOMAIN ns |->
             [ns[i] EXCEPT !.state = "healthy",
                           !.infectionTime = 0,
                           !.quarantineTime = 0]], picks, 1)

\* startFallbackSimulation()
StartFallbackSimulation(m, picks, profile) ==
    LET m1 == [m EXCEPT !.nodes = SeededNodes(m.nodes, picks),
                        !.running = TRUE,
                        !.step = 0,
                        !.rates = profile]
        m2 == UpdateControls(m1)
        m3 == [m2 EXCEPT !.chartData = EmptyChart]
    IN  FallbackSimulationLoop(AnimationLoop(m3))

\* A stop that cancels the frame whether or not animations are in flight.
FinishStop_CancelsAlways(m) ==
    LET m1 == IF m.animationFrameId # Null THEN CancelFrame(m) ELSE m
    IN  UpdateControls(m1)

\* The part of stopSimulation after the await (all of it after the first
\* statement when the service is not connected).
FinishStop(m) ==
    LET m1 == IF m.animationFrameId # Null /\ DOMAIN m.nodeAnimations = {}
              THEN CancelFrame(m) ELSE m
    IN  UpdateControls(m1)

\* stopSimulation() up to its await
StopSimulation(m) ==
    LET m1 == [m EXCEPT !.running = FALSE]
    IN  IF m1.backendConnected
        THEN [m1 EXCEPT !.stopRequests = m1.stopRequests + 1]
        ELSE FinishStop(m1)

\* resetSimulation(); with the service connected it calls loadNetwork(), which
\* runs up to its fetch.
ResetSimulation(m) ==
    LET m1 == [m EXCEPT
                 !.running = FALSE,
                 !.nodeAnimations = NoAnimations,
                 !.nodes = [i \in DOMAIN m.nodes |->
                              [m.nodes[i] EXCEPT !.state = "healthy",
                                                 !.originalX = Undefined,
                                                 !.originalY = Undefined]],
                 !.step = 0]
        m2 == IF m1.backendConnected
              THEN [m1 EXCEPT !.networkRequests = m1.networkRequests + 1]
              ELSE m1
        m3 == [m2 EXCEPT !.chartData = EmptyChart]
    IN  UpdateControls(m3)

\* ----------------------------------------------------------------- service
\* What the service can answer. kind: "data", "error" (an {error} payload) or
\* "failure" (the fetch or the JSON parse rejects); shape: "nodes" (with or
\* without positions), "node_states" (legacy) or "none".
ServiceCompartments == {"infected", "quarantined"}

ServiceStates == { [i \in Ids |-> IF i = 0 THEN c ELSE "healthy"] : c \in ServiceCompartments }

ServiceLayout == [i \in Ids |-> [x |-> 1000 + 1000 * (i % 5), y |-> 3000]]

DataPayloads(stepIndex) ==
    { [kind |-> "data", status |-> "started", step |-> stepIndex, shape |-> sh,
       states |-> st, positions |-> (sh = "nodes")] :
         sh \in {"nodes", "node_states"}, st \in ServiceStates }
    \cup { [kind |-> "data", status |-> "started", step |-> stepIndex, shape |-> "none",
            states |-> [i \in Ids |-> "healthy"], positions |-> FALSE] }

Failure == [kind |-> "failure"]

StartResponses ==
    { d \in DataPayloads(0) : d.states[0] = "infected" \/ d.shape = "none" }
    \cup { [d EXCEPT !.status = "busy"] : d \in {x \in DataPayloads(0) : x.shape = "none"} }
    \cup { Failure }

StepResponses(m) ==
    DataPayloads(m.step + 1) \cup { [kind |-> "error"], Failure }

\* The counts a payload carries; the legacy format has no quarantined and no
\* deceased key.
PayloadStats(data) ==
    LET n(c) == Cardinality({i \in Ids : data.states[i] = c})
    IN  [healthy     |-> n("healthy"),
         infected    |-> n("infected"),
         recovered   |-> n("recovered"),
         quarantined |-> IF data.shape = "node_states" THEN Undefined ELSE n("quarantined"),
         deceased    |-> IF data.shape = "node_states" THEN Undefined ELSE n("deceased")]

\* The nodes a network payload carries.
NetworkPayload ==
    [i \in Ids |->
        [id |-> i, x |-> ServiceLayout[i].x, y |-> ServiceLayout[i].y, state |-> "healthy",
         infectionTime |-> Undefined, quarantineTime |-> Undefined,
         originalX |-> Undefined, originalY |-> Undefined]]

\* The body of loadNetwork's loop over the nodes.
LoadedNode(node) ==
    IF node.state # "quarantined" /\ node.state # "deceased" /\ Falsy(node.originalX)
    THEN [node EXCEPT !.originalX = node.x, !.originalY = node.y]
    ELSE node

NetworkNodes == [i \in DOMAIN NetworkPayload |-> LoadedNode(NetworkPayload[i])]

\* The edge lists drawn when the service's network cannot be loaded.
FailoverEdgeChoices == {ChainEdges}

\* loadNetwork() after its fetch: the payload, or createFallbackNetwork() on failure
NetworkLoaded(m, ok, layout, es) ==
    IF ok
    THEN [m EXCEPT !.nodes = NetworkNodes, !.edges = ChainEdges]
    ELSE CreateFallbackNetwork(m, layout, es)

\* startSimulation() up to its await, service connected
BeginStart(m) ==
    LET m1 == [m EXCEPT !.startBtnDisabled = TRUE,
                        !.pauseBtnDisabled = FALSE,
                        !.resetBtnDisabled = TRUE]
    IN  [AnimationLoop(m1) EXCEPT !.startRequests = m1.startRequests + 1]

\* The node loop of startSimulation over data.nodes (node i) or data.node_states.
StartedNode(node, data, i) ==
    IF data.shape = "nodes"
    THEN IF data.positions
         THEN [node EXCEPT !.state = data.states[i],
                           !.x = ServiceLayout[i].x, !.y = ServiceLayout[i].y]
         ELSE [node EXCEPT !.state = data.states[i]]
    ELSE IF data.shape = "node_states"
    THEN [node EXCEPT !.state = data.states[node.id]]
    ELSE node

\* simulationLoop() up to its await
SimulationLoop(m) ==
    IF ~m.running \/ ~m.backendConnected THEN m
    ELSE [m EXCEPT !.stepRequests = m.stepRequests + 1]

\* startSimulation() after its await, for the answer data and, should the
\* request fail, the slider settings and seeding draws of the fallback start.
FinishStart(m, data, picks, setting) ==
    LET m0 == [m EXCEPT !.startRequests = m.startRequests - 1]
    IN  IF data.kind = "failure"
        THEN StartFallbackSimulation(m0, picks, RatesOf(setting))
        ELSE IF data.status = "started"
        THEN LET m1 == [m0 EXCEPT
                          !.running = TRUE,
                          !.step = data.step,
                          !.nodes = [i \in DOMAIN m0.nodes |->
                                       StartedNode(m0.nodes[i], data, i)]]
                 m2 == UpdateControls(m1)
                 m3 == [m2 EXCEPT !.chartData =
                           AddDataPoint(EmptyChart, PayloadStats(data), data.step)]
             IN  {SimulationLoop(AnimationLoop(m3))}
        ELSE {m0}

\* The quarantine animation handling shared by both loops of simulationLoop.
Transition(m, i, newState) ==
    LET oldState == m.nodes[i].state
        m1 == IF newState = "quarantined" /\ oldState # "quarantined"
              THEN StartQuarantineAnimation(m, i)
              ELSE IF oldState = "quarantined" /\ newState # "quarantined"
              THEN EndQuarantineAnimation(m, i)
              ELSE m
    IN  SetState(m1, i, newState)

RECURSIVE SteppedNodes(_, _, _)

\* A node loop whose legacy branch also places the node.
SteppedNode_LegacyMoves(m, data, i) ==
    IF data.shape \in {"nodes", "node_states"}
    THEN LET m1 == IF m.nodes[i].id \notin DOMAIN m.nodeAnimations
                   THEN [m EXCEPT !.nodes[i].x = ServiceLayout[i].x,
                                  !.nodes[i].y = ServiceLayout[i].y]
                   ELSE m
         IN  Transition(m1, i, data.states[i])
    ELSE m

\* The body of simulationLoop's loops for node i.
SteppedNode(m, data, i) ==
    IF data.shape = "nodes"
    THEN LET m1 == IF data.positions /\ m.nodes[i].id \notin DOMAIN m.nodeAnimations
                   THEN [m EXCEPT !.nodes[i].x = ServiceLayout[i].x,
                                  !.nodes[i].y = ServiceLayout[i].y]
                   ELSE m
         IN  Transition(m1, i, data.states[i])
    ELSE IF data.shape = "node_states"
    THEN Transition(m, i, data.states[m.nodes[i].id])
    ELSE m

\* The node loop of simulationLoop from node i on.
SteppedNodes(m, data, i) ==
    IF i \notin DOMAIN m.nodes THEN m
    ELSE SteppedNodes(SteppedNode(m, data, i), data, i + 1)

\* An error branch that also gives up on the service.
StepErrored_Disconnects(m) ==
    UpdateControls([m EXCEPT !.running = FALSE, !.backendConnected = FALSE])

\* An error branch that stops the run and leaves the controls as they were.
StepErrored_ControlsStale(m) == [m EXCEPT !.running = FALSE]

\* simulationLoop on an {error} payload, and its catch block
StepErrored(m) == UpdateControls([m EXCEPT !.running = FALSE])

\* simulationLoop() after its await
FinishStep(m, data) ==
    LET m0 == [m EXCEPT !.stepRequests = m.stepRequests - 1]
    IN  IF data.kind \in {"failure", "error"}
        THEN StepErrored(m0)
        ELSE LET m1 == SteppedNodes([m0 EXCEPT !.step = data.step], data, 0)
                 m2 == [m1 EXCEPT !.chartData =
                           AddDataPoint(m1.chartData, PayloadStats(data), m1.step)]
                 m3 == IF m2.animationFrameId = Null THEN AnimationLoop(m2) ELSE m2
             IN  IF m3.running
                 THEN [m3 EXCEPT !.stepTimers = m3.stepTimers + 1]
                 ELSE m3

\* ------------------------------------------------------------------- bounds
\* The local step keeps the counters within the model's range.
StepInRange(m) ==
    m.step < (IF runs <= 1 THEN MaxStep ELSE RestartSteps)

ServiceStepInRange(m) ==
    m.step < (IF runs <= 1 THEN MaxServiceStep ELSE RestartSteps)

\* A later run is followed from a state with at most RestartFrom steps on its counter.
RestartInRange(m) ==
    /\ runs < MaxRuns
    /\ clicks < MaxClicks
    /\ m.step <= RestartFrom

\* ------------------------------------------------------------------ actions
Init ==
    /\ phase = "probe"
    /\ backendConnected = FALSE
    /\ running = FALSE
    /\ step = 0
    /\ rates = NoRates
    /\ nodes = [i \in {} |-> Null]
    /\ edges = << >>
    /\ nodeAnimations = NoAnimations
    /\ animationFrameId = Null
    /\ rafCurrent = FALSE
    /\ rafStale = 0
    /\ fallbackTimers = 0
    /\ stepTimers = 0
    /\ startRequests = 0
    /\ stepRequests = 0
    /\ stopRequests = 0
    /\ networkRequests = 0
    /\ chartData = EmptyChart
    /\ startBtnDisabled = FALSE
    /\ pauseBtnDisabled = FALSE
    /\ resetBtnDisabled = FALSE
    /\ runs = 0
    /\ clicks = 0
    /\ lastClick = "none"
    /\ lastOp = "init"

\* checkBackendConnection(): the probe succeeds or not
CheckBackendConnection ==
    /\ phase = "probe"
    /\ \E ok \in BOOLEAN :
          Becomes([Machine EXCEPT !.backendConnected = ok])
    /\ phase' = "load"
    /\ runs' = runs
    /\ clicks' = clicks
    /\ lastClick' = lastClick
    /\ lastOp' = "probe"

\* initialize() from loadNetwork() on, service not connected
LoadFallbackNetwork ==
    /\ phase = "load"
    /\ ~backendConnected
    /\ \E layout \in Layouts, es \in EdgeChoices :
          Becomes(UpdateControls(CreateFallbackNetwork(Machine, layout, es)))
    /\ phase' = "ready"
    /\ runs' = runs
    /\ clicks' = clicks
    /\ lastClick' = lastClick
    /\ lastOp' = "load"

\* click on startBtn, service not connected
StartLocal ==
    /\ phase = "ready"
    /\ ~startBtnDisabled
    /\ ~backendConnected
    /\ RestartInRange(Machine)
    /\ \E setting \in Settings :
         \E picks \in [1 .. setting.initialInfected -> DOMAIN nodes] :
           \E m \in StartFallbackSimulation(Machine, picks, RatesOf(setting)) :
              Becomes(m)
    /\ phase' = phase
    /\ runs' = runs + 1
    /\ clicks' = clicks + 1
    /\ lastClick' = "start"
    /\ lastOp' = "start"

\* a setTimeout(fallbackSimulationLoop) callback runs
FallbackTimerFires ==
    /\ fallbackTimers > 0
    /\ (running /\ ~backendConnected) => StepInRange(Machine)
    /\ \E m \in FallbackSimulationLoop(
                    [Machine EXCEPT !.fallbackTimers = fallbackTimers - 1]) :
          Becomes(m)
    /\ phase' = phase
    /\ runs' = runs
    /\ clicks' = clicks
    /\ lastClick' = lastClick
    /\ lastOp' = "fallbackStep"

\* click on pauseBtn
Pause ==
    /\ phase = "ready"
    /\ ~pauseBtnDisabled
    /\ clicks < MaxClicks
    /\ Becomes(StopSimulation(Machine))
    /\ phase' = phase
    /\ runs' = runs
    /\ clicks' = clicks + 1
    /\ lastClick' = IF running THEN "stop" ELSE "stopIdle"
    /\ lastOp' = "stop"

\* click on resetBtn
Reset ==
    /\ phase = "ready"
    /\ ~resetBtnDisabled
    /\ clicks < MaxClicks
    /\ Becomes(ResetSimulation(Machine))
    /\ phase' = phase
    /\ runs' = runs
    /\ clicks' = clicks + 1
    /\ lastClick' = "reset"
    /\ lastOp' = "reset"

\* the animation-frame callback of handle animationFrameId runs
FrameFires ==
    /\ rafCurrent
    /\ Becomes(AnimationLoop([Machine EXCEPT !.rafCurrent = FALSE]))
    /\ UNCHANGED << phase, runs, clicks, lastClick, lastOp >>

\* an animation-frame callback of an older handle runs
StaleFrameFires ==
    /\ rafStale > 0
    /\ Becomes(AnimationLoop([Machine EXCEPT !.rafStale = rafStale - 1]))
    /\ UNCHANGED << phase, runs, clicks, lastClick, lastOp >>

\* Date.now() advances by TimeQuantum ms (an elapsed beyond duration reads as duration)
TimePasses ==
    /\ DOMAIN nodeAnimations # {}
    /\ nodeAnimations' =
          [k \in DOMAIN nodeAnimations |->
              [nodeAnimations[k] EXCEPT
                 !.elapsed = Min(@ + TimeQuantum, nodeAnimations[k].duration)]]
    /\ UNCHANGED << runs, clicks, lastClick, lastOp, phase, backendConnected, running, step, rates, nodes, edges,
                    animationFrameId, rafCurrent, rafStale, fallbackTimers,
                    stepTimers, startRequests, stepRequests, stopRequests,
                    networkRequests, chartData, startBtnDisabled,
                    pauseBtnDisabled, resetBtnDisabled >>

\* initialize() from loadNetwork() on, service connected
LoadServiceNetwork ==
    /\ phase = "load"
    /\ backendConnected
    /\ \E ok \in BOOLEAN, layout \in Layouts, es \in FailoverEdgeChoices :
          Becomes(UpdateControls(NetworkLoaded(Machine, ok, layout, es)))
    /\ phase' = "ready"
    /\ runs' = runs
    /\ clicks' = clicks
    /\ lastClick' = lastClick
    /\ lastOp' = "load"

\* click on startBtn, service connected
StartService ==
    /\ phase = "ready"
    /\ ~startBtnDisabled
    /\ backendConnected
    /\ RestartInRange(Machine)
    /\ Becomes(BeginStart(Machine))
    /\ phase' = phase
    /\ runs' = runs + 1
    /\ clicks' = clicks + 1
    /\ lastClick' = "start"
    /\ lastOp' = "start"

\* the service answers simulation/start, or the request fails
StartAnswered ==
    /\ startRequests > 0
    /\ \E data \in StartResponses, setting \in FailoverSettings :
         \E picks \in [1 .. setting.initialInfected -> DOMAIN nodes] :
           \E m \in FinishStart(Machine, data, picks, setting) :
              /\ Becomes(m)
              /\ lastOp' = IF data.kind = "failure" THEN "startFailed"
                           ELSE IF data.status = "started" THEN "started"
                           ELSE "startRefused"
    /\ phase' = phase
    /\ runs' = runs
    /\ clicks' = clicks
    /\ lastClick' = lastClick

\* the service answers simulation/step, or the request fails
StepAnswered ==
    /\ stepRequests > 0
    /\ \E data \in StepResponses(Machine) :
          /\ data.kind = "data" => ServiceStepInRange(Machine)
          /\ Becomes(FinishStep(Machine, data))
          /\ lastOp' = IF data.kind = "data" THEN "stepAnswered"
                       ELSE IF data.kind = "error" THEN "stepError"
                       ELSE "stepFailed"
    /\ phase' = phase
    /\ runs' = runs
    /\ clicks' = clicks
    /\ lastClick' = lastClick

\* a setTimeout(simulationLoop) callback runs
StepTimerFires ==
    /\ stepTimers > 0
    /\ Becomes(SimulationLoop([Machine EXCEPT !.stepTimers = stepTimers - 1]))
    /\ phase' = phase
    /\ runs' = runs
    /\ clicks' = clicks
    /\ lastClick' = lastClick
    /\ lastOp' = "stepTimer"

\* the await of stopSimulation returns
StopAnswered ==
    /\ stopRequests > 0
    /\ Becomes(FinishStop([Machine EXCEPT !.stopRequests = stopRequests - 1]))
    /\ phase' = phase
    /\ runs' = runs
    /\ clicks' = clicks
    /\ lastClick' = lastClick
    /\ lastOp' = "stopAnswered"

\* the fetch of the loadNetwork() that resetSimulation called returns
NetworkAnswered ==
    /\ networkRequests > 0
    /\ \E ok \in BOOLEAN, layout \in Layouts, es \in FailoverEdgeChoices :
          Becomes(NetworkLoaded([Machine EXCEPT !.networkRequests = networkRequests - 1],
                                ok, layout, es))
    /\ phase' = phase
    /\ runs' = runs
    /\ clicks' = clicks
    /\ lastClick' = lastClick
    /\ lastOp' = "networkAnswered"

Next ==
    \/ CheckBackendConnection
    \/ LoadFallbackNetwork
    \/ LoadServiceNetwork
    \/ StartLocal
    \/ StartService
    \/ StartAnswered
    \/ StepAnswered
    \/ StepTimerFires
    \/ StopAnswered
    \/ NetworkAnswered
    \/ FallbackTimerFires
    \/ Pause
    \/ Reset
    \/ FrameFires
    \/ StaleFrameFires
    \/ TimePasses

Spec == Init /\ [][Next]_vars

\* --------------------------------------------- a service run, frames fair
\* Runs with the service connected and answering every request with data,
\* without reset, of at most AnimMaxStep steps and AnimMaxClicks clicks. The
\* browser runs every animation-frame callback it holds, and time passes.
AnimInRange ==
    /\ backendConnected
    /\ step <= AnimMaxStep
    /\ clicks <= AnimMaxClicks
    /\ lastOp \notin {"stepFailed", "stepError", "startRefused", "startFailed"}

AnimNext ==
    \/ CheckBackendConnection /\ AnimInRange'
    \/ LoadServiceNetwork /\ AnimInRange' /\ nodes' = NetworkNodes
    \/ StartService /\ AnimInRange'
    \/ StartAnswered /\ AnimInRange'
    \/ StepAnswered /\ AnimInRange'
    \/ StepTimerFires /\ AnimInRange'
    \/ StopAnswered /\ AnimInRange'
    \/ Pause /\ AnimInRange'
    \/ FrameFires
    \/ StaleFrameFires
    \/ TimePasses

AnimSpec ==
    /\ Init
    /\ [][AnimNext]_vars
    /\ WF_vars(FrameFires)
    /\ WF_vars(StaleFrameFires)
    /\ WF_vars(TimePasses)

\* ------------------------------------------------------- the chart alone
\* RealtimeChart driven directly: addDataPoint and clear in any order. As in
\* the program, the step passed to addDataPoint counts the points added since
\* the last clear().

\* The counts of the n-th call, all keys present; every call differs.
ChartStats(n) ==
    [healthy |-> n, infected |-> n + 1, recovered |-> n + 2,
     quarantined |-> n + 3, deceased |-> n + 4]

\* The counts objects the n-th call can pass: all keys present, or, in the
\* first MaxSparseCalls calls, one key absent.
ChartInputs(n) ==
    {ChartStats(n)} \cup
    (IF n <= MaxSparseCalls
     THEN { [ChartStats(n) EXCEPT ![k] = Undefined] : k \in Compartments }
     ELSE {})

ChartInit ==
    /\ phase = "chart"
    /\ backendConnected = FALSE
    /\ running = FALSE
    /\ step = 0
    /\ rates = NoRates
    /\ nodes = [i \in {} |-> Null]
    /\ edges = << >>
    /\ nodeAnimations = NoAnimations
    /\ animationFrameId = Null
    /\ rafCurrent = FALSE
    /\ rafStale = 0
    /\ fallbackTimers = 0
    /\ stepTimers = 0
    /\ startRequests = 0
    /\ stepRequests = 0
    /\ stopRequests = 0
    /\ networkRequests = 0
    /\ chartData = EmptyChart
    /\ startBtnDisabled = FALSE
    /\ pauseBtnDisabled = FALSE
    /\ resetBtnDisabled = FALSE
    /\ runs = 0
    /\ clicks = 0
    /\ lastClick = "none"
    /\ lastOp = "init"

\* realtimeChart.addDataPoint(stats, step)
ChartAddDataPoint ==
    /\ phase = "chart"
    /\ step < MaxChartCalls
    /\ \E stats \in ChartInputs(step + 1) :
          chartData' = AddDataPoint(chartData, stats, step + 1)
    /\ step' = step + 1
    /\ lastOp' = "addDataPoint"
    /\ UNCHANGED << phase, backendConnected, running, rates, nodes, edges,
                    nodeAnimations, animationFrameId, rafCurrent, rafStale,
                    fallbackTimers, stepTimers, startRequests, stepRequests,
                    stopRequests, networkRequests, startBtnDisabled,
                    pauseBtnDisabled, resetBtnDisabled, runs, clicks, lastClick >>

\* realtimeChart.clear()
ChartClear ==
    /\ phase = "chart"
    /\ chartData' = EmptyChart
    /\ step' = 0
    /\ lastOp' = "clear"
    /\ UNCHANGED << phase, backendConnected, running, rates, nodes, edges,
                    nodeAnimations, animationFrameId, rafCurrent, rafStale,
                    fallbackTimers, stepTimers, startRequests, stepRequests,
                    stopRequests, networkRequests, startBtnDisabled,
                    pauseBtnDisabled, resetBtnDisabled, runs, clicks, lastClick >>

ChartNext ==
    \/ ChartAddDataPoint
    \/ ChartClear

ChartSpec == ChartInit /\ [][ChartNext]_vars

\* ------------------------------------------- one animation, a finer clock
\* updateAnimations as a function of the elapsed time: one node of the local
\* network moves to its quarantine slot or back from it, the clock advances in
\* steps of EaseFine or EaseCoarse ms between frames.
EaseQuanta == {EaseFine, EaseCoarse}

\* The positions of the network: those createFallbackNetwork draws, and a
\* network of the service whose first node stands on the left edge, x = 0.
EaseLayouts ==
    Layouts \cup { [i \in Ids |-> [x |-> 1000 * (i % 5), y |-> 3000]] }

\* The records startQuarantineAnimation and endQuarantineAnimation create for
\* node i of a fresh local network.
EaseOutward(layout, i) ==
    LET m0 == CreateFallbackNetwork(
                  [nodes |-> << >>, edges |-> << >>, nodeAnimations |-> NoAnimations],
                  layout, << >>)
    IN  StartQuarantineAnimation(
            SetState(m0, i, "quarantined"), i)

EaseReturn(layout, i) ==
    LET out    == EaseOutward(layout, i)
        rec    == out.nodeAnimations[out.nodes[i].id]
        landed == [out EXCEPT
                     !.nodes = [out.nodes EXCEPT
                                  ![i] = AnimatedNode(@, [rec EXCEPT !.elapsed = rec.duration])],
                     !.nodeAnimations = NoAnimations]
    IN  EndQuarantineAnimation(
            SetState(landed, i, "recovered"), i)

\* The same with a second record whose node a reload of the network has dropped
\* from the population.
EaseOrphaned(layout, i) ==
    LET j    == (i + 1) % NodeCount
        both == StartQuarantineAnimation(
                    SetState(EaseOutward(layout, i), j, "quarantined"), j)
    IN  [both EXCEPT !.nodes = [k \in (DOMAIN both.nodes) \ {j} |-> both.nodes[k]]]

EaseInit ==
    /\ phase = "ease"
    /\ backendConnected = FALSE
    /\ running = FALSE
    /\ step = 0
    /\ rates = NoRates
    /\ \E layout \in EaseLayouts, i \in Ids, m \in {"outward", "return", "orphaned"} :
          LET start == IF m = "outward" THEN EaseOutward(layout, i)
                       ELSE IF m = "return" THEN EaseReturn(layout, i)
                       ELSE EaseOrphaned(layout, i)
          IN  /\ nodes = start.nodes
              /\ nodeAnimations = start.nodeAnimations
    /\ edges = << >>
    /\ animationFrameId = Null
    /\ rafCurrent = FALSE
    /\ rafStale = 0
    /\ fallbackTimers = 0
    /\ stepTimers = 0
    /\ startRequests = 0
    /\ stepRequests = 0
    /\ stopRequests = 0
    /\ networkRequests = 0
    /\ chartData = EmptyChart
    /\ startBtnDisabled = FALSE
    /\ pauseBtnDisabled = FALSE
    /\ resetBtnDisabled = FALSE
    /\ runs = 0
    /\ clicks = 0
    /\ lastClick = "none"
    /\ lastOp = "init"

\* Date.now() advances by one of the quanta
EaseTimePasses ==
    /\ phase = "ease"
    /\ DOMAIN nodeAnimations # {}
    /\ \E q \in EaseQuanta :
          nodeAnimations' =
             [k \in DOMAIN nodeAnimations |->
                 [nodeAnimations[k] EXCEPT
                    !.elapsed = Min(@ + q, nodeAnimations[k].duration)]]
    /\ lastOp' = "time"
    /\ UNCHANGED << phase, backendConnected, running, step, rates, nodes, edges,
                    animationFrameId, rafCurrent, rafStale, fallbackTimers,
                    stepTimers, startRequests, stepRequests, stopRequests,
                    networkRequests, chartData, startBtnDisabled,
                    pauseBtnDisabled, resetBtnDisabled, runs, clicks, lastClick >>

\* updateAnimations() of one frame
EaseFrame ==
    /\ phase = "ease"
    /\ DOMAIN nodeAnimations # {}
    /\ LET m == UpdateAnimations(Machine)
       IN  /\ nodes' = m.nodes
           /\ nodeAnimations' = m.nodeAnimations
    /\ lastOp' = "frame"
    /\ UNCHANGED << phase, backendConnected, running, step, rates, edges,
                    animationFrameId, rafCurrent, rafStale, fallbackTimers,
                    stepTimers, startRequests, stepRequests, stopRequests,
                    networkRequests, chartData, startBtnDisabled,
                    pauseBtnDisabled, resetBtnDisabled, runs, clicks, lastClick >>

\* The node loop of simulationLoop for a legacy answer that moves one node
\* into or out of quarantine.
EaseStepAnswered ==
    /\ phase = "ease"
    /\ step < EaseMaxStep
    /\ \E i \in DOMAIN nodes, newState \in {"quarantined", "infected"} :
          /\ (nodes[i].state = "quarantined") # (newState = "quarantined")
          /\ LET m == Transition(Machine, i, newState)
             IN  /\ nodes' = m.nodes
                 /\ nodeAnimations' = m.nodeAnimations
    /\ step' = step + 1
    /\ lastOp' = "stepAnswered"
    /\ UNCHANGED << phase, backendConnected, running, rates, edges,
                    animationFrameId, rafCurrent, rafStale, fallbackTimers,
                    stepTimers, startRequests, stepRequests, stopRequests,
                    networkRequests, chartData, startBtnDisabled,
                    pauseBtnDisabled, resetBtnDisabled, runs, clicks, lastClick >>

EaseNext ==
    \/ EaseTimePasses
    \/ EaseFrame
    \/ EaseStepAnswered

EaseSpec == EaseInit /\ [][EaseNext]_vars

\* ------------------------------------------- the slots of a large population
\* The same steps, frames and clock for one node of a population of more than
\* SlotMaxId nodes (createFallbackNetwork makes 500): the node with identity n,
\* healthy and on its place, before it is quarantined.
SlotInit ==
    /\ phase = "ease"
    /\ backendConnected = FALSE
    /\ running = FALSE
    /\ step = 0
    /\ rates = NoRates
    /\ \E n \in 0 .. SlotMaxId :
          nodes = [i \in {n} |->
                     [id |-> n, x |-> 1000 + 1000 * (n % 5), y |-> 3000,
                      state |-> "healthy",
                      infectionTime |-> Undefined, quarantineTime |-> Undefined,
                      originalX |-> Undefined, originalY |-> Undefined]]
    /\ nodeAnimations = NoAnimations
    /\ edges = << >>
    /\ animationFrameId = Null
    /\ rafCurrent = FALSE
    /\ rafStale = 0
    /\ fallbackTimers = 0
    /\ stepTimers = 0
    /\ startRequests = 0
    /\ stepRequests = 0
    /\ stopRequests = 0
    /\ networkRequests = 0
    /\ chartData = EmptyChart
    /\ startBtnDisabled = FALSE
    /\ pauseBtnDisabled = FALSE
    /\ resetBtnDisabled = FALSE
    /\ runs = 0
    /\ clicks = 0
    /\ lastClick = "none"
    /\ lastOp = "init"

SlotSpec == SlotInit /\ [][EaseNext]_vars

\* --------------------------------------------- the edges of the local network
\* The edge loop of createFallbackNetwork, one source node per step, for a
\* population of TopoCount nodes and the first TopoSources sources.
TopoIds == 0 .. (TopoCount - 1)

\* numConnections = Math.floor(Math.random() * 3) + 3
ConnectionCounts == 3 .. 5

\* The inner loop from attempt j on: picks[j] is the j-th target drawn for
\* source i, connected the targets taken so far.
RECURSIVE Connect(_, _, _, _)
Connect(i, picks, j, connected) ==
    IF j > Len(picks) THEN << >>
    ELSE IF picks[j] # i /\ picks[j] \notin connected
    THEN << [source |-> i, target |-> picks[j]] >>
            \o Connect(i, picks, j + 1, connected \cup {picks[j]})
    ELSE Connect(i, picks, j + 1, connected)

TopoInit ==
    /\ phase = "topology"
    /\ backendConnected = FALSE
    /\ running = FALSE
    /\ step = 0
    /\ rates = NoRates
    /\ nodes = [i \in TopoIds |->
                  [id |-> i, x |-> 1000 + 1000 * (i % 5), y |-> 3000, state |-> "healthy",
                   infectionTime |-> Undefined, quarantineTime |-> Undefined,
                   originalX |-> Undefined, originalY |-> Undefined]]
    /\ edges = << >>
    /\ nodeAnimations = NoAnimations
    /\ animationFrameId = Null
    /\ rafCurrent = FALSE
    /\ rafStale = 0
    /\ fallbackTimers = 0
    /\ stepTimers = 0
    /\ startRequests = 0
    /\ stepRequests = 0
    /\ stopRequests = 0
    /\ networkRequests = 0
    /\ chartData = EmptyChart
    /\ startBtnDisabled = FALSE
    /\ pauseBtnDisabled = FALSE
    /\ resetBtnDisabled = FALSE
    /\ runs = 0
    /\ clicks = 0
    /\ lastClick = "none"
    /\ lastOp = "init"

\* The body of the edge loop for source node i = step.
TopoConnect ==
    /\ phase = "topology"
    /\ step < TopoSources
    /\ \E numConnections \in ConnectionCounts :
          \E picks \in [1 .. numConnections -> TopoIds] :
             edges' = edges \o Connect(step, picks, 1, {})
    /\ step' = step + 1
    /\ lastOp' = "connect"
    /\ UNCHANGED << phase, backendConnected, running, rates, nodes,
                    nodeAnimations, animationFrameId, rafCurrent, rafStale,
                    fallbackTimers, stepTimers, startRequests, stepRequests,
                    stopRequests, networkRequests, chartData, startBtnDisabled,
                    pauseBtnDisabled, resetBtnDisabled, runs, clicks, lastClick >>

TopoNext == TopoConnect

TopoSpec == TopoInit /\ [][TopoNext]_vars

\* ------------------------------------------------------------------ claims

\* C1: in local mode the five compartment counts sum to the population, both
\* for the nodes as they stand (what updateStats shows after start() and after
\* each step) and for every point fallbackSimulationLoop gave the chart.
C1_CountsSumToPopulation ==
    (phase = "ready" /\ ~backendConnected) =>
        /\ LET now == LocalStats(nodes)
           IN  now.healthy + now.infected + now.recovered
                 + now.quarantined + now.deceased = Cardinality(DOMAIN nodes)
        /\ \A j \in 1 .. Len(chartData.timestamps) :
              chartData.healthy[j] + chartData.infected[j]
                + chartData.recovered[j] + chartData.quarantined[j]
                + chartData.deceased[j] = Cardinality(DOMAIN nodes)

\* C1 witness: a local step has just charted a point, its second at least,
\* with healthy and quarantined nodes, after a first point with infected ones.
C1_Witness ==
    /\ ~backendConnected
    /\ lastOp = "fallbackStep"
    /\ Len(chartData.timestamps) >= 2
    /\ chartData.infected[1] > 0
    /\ chartData.healthy[Len(chartData.timestamps)] > 0
    /\ chartData.quarantined[Len(chartData.timestamps)] > 0

\* C2: a run of fallbackSimulationLoop from a timer never changes the
\* compartment of a node that is deceased or recovered before it.
C2_TerminalCompartmentsAbsorb ==
    [][ (lastOp' = "fallbackStep" /\ step' = step + 1) =>
          \A i \in DOMAIN nodes :
             nodes[i].state \in {"deceased", "recovered"} =>
                nodes'[i].state = nodes[i].state ]_vars

\* C2 witness: local steps have run past the day a death can first happen,
\* and a deceased node shares an edge with an infected one.
C2_Witness ==
    /\ ~backendConnected
    /\ lastOp = "fallbackStep"
    /\ step >= 17
    /\ \E j \in 1 .. Len(edges) :
          \/ /\ nodes[edges[j].source].state = "deceased"
             /\ nodes[edges[j].target].state = "infected"
          \/ /\ nodes[edges[j].target].state = "deceased"
             /\ nodes[edges[j].source].state = "infected"

\* C3: at no time is more than one step pending, a pending step being an
\* armed step timer or a step request in flight.
C3_OneStepPending ==
    fallbackTimers + stepTimers + stepRequests <= 1

\* C4: once a start request of a connected service has been refused or has
\* failed, the run is running on the local path: a local step has run and the
\* timer of the next one is armed.
C4_FailedStartFallsBack ==
    lastOp \in {"startFailed", "startRefused"} =>
        /\ running
        /\ step >= 1
        /\ fallbackTimers >= 1

\* C5: after reset() the run is idle, every node is healthy with cleared
\* counters (zero, or never set), no saved position and no animation record
\* remains, and the chart is empty.
C5_ResetClearsEverything ==
    lastOp = "reset" =>
        /\ ~running
        /\ \A i \in DOMAIN nodes :
              /\ nodes[i].state = "healthy"
              /\ nodes[i].infectionTime \in {0, Undefined}
              /\ nodes[i].quarantineTime \in {0, Undefined}
              /\ nodes[i].originalX = Undefined
              /\ nodes[i].originalY = Undefined
        /\ DOMAIN nodeAnimations = {}
        /\ chartData = EmptyChart

\* C6: whatever the draws, the seeding of a local run with initialInfected = k
\* leaves exactly k nodes infected, the others healthy, all counters zero.
C6_SeedsExactlyK ==
    (phase = "ready" /\ ~backendConnected) =>
        \A setting \in Settings :
           \A picks \in [1 .. setting.initialInfected -> DOMAIN nodes] :
              LET seeded == SeededNodes(nodes, picks)
              IN  /\ Cardinality({i \in DOMAIN seeded :
                                    seeded[i].state = "infected"})
                       = setting.initialInfected
                  /\ \A i \in DOMAIN seeded :
                        /\ seeded[i].state \in {"infected", "healthy"}
                        /\ seeded[i].infectionTime = 0
                        /\ seeded[i].quarantineTime = 0

\* C7: while the last control clicked is pause, clicked in a running run, no
\* step is scheduled, a step that is applied is the one dispatched step (none
\* is left pending after it), and in local mode nothing changes compartments,
\* step counter or chart.
C7_StopHalts ==
    [][ (lastClick = "stop" /\ lastClick' = "stop") =>
          /\ fallbackTimers' <= fallbackTimers
          /\ stepTimers' <= stepTimers
          /\ stepRequests' <= stepRequests
          /\ step' # step => (stepRequests' = 0 /\ stepTimers' = 0)
          /\ ~backendConnected =>
                /\ step' = step
                /\ chartData' = chartData
                /\ \A i \in DOMAIN nodes : nodes'[i].state = nodes[i].state ]_vars

\* C8: every node that is quarantined after a local step, the step start()
\* runs included, was infected or quarantined before that step.
C8_QuarantineOnlyFromInfected ==
    [][ /\ (lastOp' = "fallbackStep" /\ step' = step + 1) =>
             \A i \in DOMAIN nodes :
                nodes'[i].state = "quarantined" =>
                   nodes[i].state \in {"infected", "quarantined"}
        /\ (lastOp' = "start" /\ ~backendConnected) =>
             \A i \in DOMAIN nodes' : nodes'[i].state # "quarantined" ]_vars

\* C8 witness: a local step has just quarantined a node, next to a node
\* that is still healthy.
C8_Witness ==
    /\ ~backendConnected
    /\ lastOp = "fallbackStep"
    /\ \E i \in DOMAIN nodes :
          nodes[i].state = "quarantined" /\ nodes[i].quarantineTime = 0
    /\ \E i \in DOMAIN nodes : nodes[i].state = "healthy"

\* C9: a node quarantined before a local step has its quarantineTime
\* incremented by it, and either stays quarantined or becomes recovered,
\* the latter only with an incremented quarantineTime above 14.
C9_QuarantineEndsInRecovery ==
    [][ (lastOp' = "fallbackStep" /\ step' = step + 1) =>
          \A i \in DOMAIN nodes :
             nodes[i].state = "quarantined" =>
                /\ nodes'[i].quarantineTime = nodes[i].quarantineTime + 1
                /\ \/ nodes'[i].state = "quarantined"
                   \/ /\ nodes'[i].state = "recovered"
                      /\ nodes'[i].quarantineTime > 14 ]_vars

\* C9 witness: a local step has moved a node out of quarantine, at the
\* fifteenth increment of its quarantineTime.
C9_Witness ==
    /\ ~backendConnected
    /\ lastOp = "fallbackStep"
    /\ \E i \in DOMAIN nodes :
          nodes[i].state = "recovered" /\ nodes[i].quarantineTime = 15

\* C10: the answer to a step request that carries an {error} payload stops
\* the run, enables the start control and schedules nothing.
C10_StepErrorHalts ==
    [][ (lastOp' = "stepError" /\ stepRequests' < stepRequests) =>
          /\ ~running'
          /\ ~startBtnDisabled'
          /\ stepRequests' = stepRequests - 1
          /\ stepTimers' = stepTimers
          /\ fallbackTimers' = fallbackTimers
          /\ startRequests' = startRequests ]_vars

\* C10 witness: with start the only click so far, hence in a running run,
\* a step request was answered with an error and the run is idle.
C10_Witness ==
    /\ lastOp = "stepError"
    /\ clicks = 1
    /\ ~running
    /\ ~startBtnDisabled

\* C11: the chart never holds more than maxDataPoints points in any of its
\* series, and right after clear() it holds none.
C11_WindowBounded ==
    /\ \A k \in DOMAIN chartData : Len(chartData[k]) <= maxDataPoints
    /\ lastOp = "clear" => \A k \in DOMAIN chartData : Len(chartData[k]) = 0

\* C11 witness: more than maxDataPoints points were added since the last
\* clear(), and the window is full.
C11_Witness ==
    /\ phase = "chart"
    /\ lastOp = "addDataPoint"
    /\ step > maxDataPoints
    /\ Len(chartData.timestamps) = maxDataPoints

\* C12: after n calls of addDataPoint on an empty window, the window holds the
\* last Min(n, maxDataPoints) points in the order of the calls.
C12_WindowHoldsMostRecent ==
    phase = "chart" =>
       LET len == Len(chartData.timestamps)
       IN  /\ len = Min(step, maxDataPoints)
           /\ \A k \in DOMAIN chartData : Len(chartData[k]) = len
           /\ \A j \in 1 .. len :
                 LET n == step - len + j
                 IN  /\ chartData.timestamps[j] = n
                     /\ n > MaxSparseCalls =>
                           \A k \in Compartments :
                              chartData[k][j] = ChartStats(n)[k]

\* C12 witness: the window is full and its oldest point is the fourth call,
\* three points having been evicted.
C12_Witness ==
    /\ phase = "chart"
    /\ step = maxDataPoints + 3
    /\ Len(chartData.timestamps) = maxDataPoints
    /\ chartData.timestamps[1] = 4

\* C13: whichever compartment key the counts lack, the value addDataPoint
\* records for a compartment is a count, zero for an absent key.
C13_MissingKeyIsZero ==
    phase = "chart" =>
       \A k \in Compartments :
          \A j \in 1 .. Len(chartData[k]) :
             /\ chartData[k][j] # Undefined
             /\ chartData[k][j] \in {0, ChartStats(chartData.timestamps[j])[k]}

\* C14: an animation-frame callback requests a next frame exactly when the
\* run is active or an animation record exists; otherwise it requests none
\* and cancels the current handle. So from a state with the run idle and no
\* record, either the idleness ends or no callback stays pending.
C14_AnimationLoopStops ==
    /\ [][ (FrameFires \/ StaleFrameFires) =>
             IF running \/ DOMAIN nodeAnimations # {}
             THEN rafCurrent'
             ELSE /\ ~rafCurrent'
                  /\ animationFrameId' = Null
                  /\ rafStale' <= rafStale ]_vars
    /\ (~running /\ DOMAIN nodeAnimations = {})
          ~> \/ ~rafCurrent /\ rafStale = 0
             \/ running \/ DOMAIN nodeAnimations # {}

\* C14 witness: a run was stopped, an animation has taken a quarantined node
\* to its slot, and no callback is pending any more.
C14_Witness ==
    /\ lastClick = "stop"
    /\ ~running
    /\ DOMAIN nodeAnimations = {}
    /\ animationFrameId = Null
    /\ ~rafCurrent
    /\ rafStale = 0
    /\ \E i \in DOMAIN nodes :
          /\ nodes[i].state = "quarantined"
          /\ nodes[i].x = FinalX(nodes[i].id)

\* C15: stop() keeps every animation record, both before and after its
\* await; a record that a tick removes leaves its node at the record's
\* target; and the records present after stop() are all removed in the end.
C15_StopKeepsAnimations ==
    /\ [][ (Pause \/ StopAnswered) => nodeAnimations' = nodeAnimations ]_vars
    /\ [][ (FrameFires \/ StaleFrameFires) =>
             \A i \in DOMAIN nodes :
                (/\ nodes[i].id \in DOMAIN nodeAnimations
                 /\ nodes[i].id \notin DOMAIN nodeAnimations') =>
                   /\ nodes'[i].x = nodeAnimations[nodes[i].id].targetX
                   /\ nodes'[i].y = nodeAnimations[nodes[i].id].targetY ]_vars
    /\ (lastClick = "stop" /\ DOMAIN nodeAnimations # {})
          ~> (DOMAIN nodeAnimations = {})

\* C15 witness: pause was clicked with a record in flight, the stop request
\* has been answered, and the record has run its course: the quarantined node
\* is at its slot and no record is left.
C15_Witness ==
    /\ lastClick = "stop"
    /\ lastOp = "stopAnswered"
    /\ clicks = 2
    /\ DOMAIN nodeAnimations = {}
    /\ \E i \in DOMAIN nodes :
          /\ nodes[i].state = "quarantined"
          /\ nodes[i].x = FinalX(nodes[i].id)
          /\ nodes[i].y = FinalY(nodes[i].id)

\* C16: with infectionRate 1.0 a local step leaves infected every node that
\* was healthy before it and shares an edge with a node infected before it.
C16_CertainTransmission ==
    [][ (lastOp' = "fallbackStep" /\ step' = step + 1
            /\ rates.infectionRate = 100) =>
          \A j \in 1 .. Len(edges) :
             LET a == edges[j].source
                 b == edges[j].target
             IN  /\ (nodes[a].state = "infected" /\ nodes[b].state = "healthy")
                       => nodes'[b].state = "infected"
                 /\ (nodes[b].state = "infected" /\ nodes[a].state = "healthy")
                       => nodes'[a].state = "infected" ]_vars

\* C16 witness: with infectionRate 1.0 the second step of a run has just
\* infected the first node of the chain, healthy until then.
C16_Witness ==
    /\ ~backendConnected
    /\ lastOp = "fallbackStep"
    /\ rates.infectionRate = 100
    /\ step = 2
    /\ Len(edges) > 0
    /\ nodes[0].state = "infected"
    /\ nodes[0].infectionTime = 1
    /\ nodes[1].state = "infected"
    /\ nodes[1].infectionTime = 2

\* C17: with quarantineRate 1.0 and no edges, the nodes start() seeded (the
\* only ones that are not healthy) are infected after each of the steps 1 to 7
\* and quarantined after step 8.
C17_QuarantinedAtEighthStep ==
    (phase = "ready" /\ ~backendConnected /\ edges = << >>
        /\ rates # NoRates /\ rates.quarantineRate = 100) =>
       \A i \in DOMAIN nodes :
          nodes[i].state # "healthy" =>
             /\ step \in 1 .. 7 => nodes[i].state = "infected"
             /\ step = 8 => nodes[i].state = "quarantined"

\* C17 witness: the eighth step of a run without edges and with quarantineRate
\* 1.0 has just run, and a node is quarantined.
C17_Witness ==
    /\ ~backendConnected
    /\ edges = << >>
    /\ rates # NoRates
    /\ rates.quarantineRate = 100
    /\ lastOp = "fallbackStep"
    /\ step = 8
    /\ \E i \in DOMAIN nodes : nodes[i].state = "quarantined"

Dist(a, b) == IF a >= b THEN a - b ELSE b - a

\* C18: a frame never moves an animated node back toward the start of its
\* animation, puts it on the start position at progress 0 and exactly on the
\* target position at progress 1.
C18_EasingMonotonicAndExact ==
    [][ EaseFrame =>
          \A i \in DOMAIN nodes :
             nodes[i].id \in DOMAIN nodeAnimations =>
                LET anim == nodeAnimations[nodes[i].id]
                IN  /\ Dist(nodes'[i].x, anim.startX) >= Dist(nodes[i].x, anim.startX)
                    /\ Dist(nodes'[i].y, anim.startY) >= Dist(nodes[i].y, anim.startY)
                    /\ Dist(nodes'[i].x, anim.targetX) <= Dist(nodes[i].x, anim.targetX)
                    /\ Dist(nodes'[i].y, anim.targetY) <= Dist(nodes[i].y, anim.targetY)
                    /\ anim.elapsed = 0 =>
                          /\ nodes'[i].x = anim.startX
                          /\ nodes'[i].y = anim.startY
                    /\ anim.elapsed >= anim.duration =>
                          /\ nodes'[i].x = anim.targetX
                          /\ nodes'[i].y = anim.targetY ]_vars

\* C18 witness: a frame has drawn a node past the half of its animation,
\* strictly between the start and the target position.
C18_Witness ==
    /\ phase = "ease"
    /\ lastOp = "frame"
    /\ \E i \in DOMAIN nodes :
          /\ nodes[i].id \in DOMAIN nodeAnimations
          /\ LET anim == nodeAnimations[nodes[i].id]
             IN  /\ 2 * anim.elapsed > anim.duration
                 /\ anim.elapsed < anim.duration
                 /\ Dist(nodes[i].x, anim.startX) > 0
                 /\ Dist(nodes[i].x, anim.targetX) > 0
                 /\ Dist(nodes[i].x, anim.startX) + Dist(nodes[i].x, anim.targetX)
                       = Dist(anim.startX, anim.targetX)

\* C19: a node that is healthy before a local step and infected after it
\* shares an edge with a node that was infected before the step.
C19_NoCascadeWithinStep ==
    [][ (lastOp' = "fallbackStep" /\ step' = step + 1) =>
          \A i \in DOMAIN nodes :
             (nodes[i].state = "healthy" /\ nodes'[i].state = "infected") =>
                \E j \in 1 .. Len(edges) :
                   \/ edges[j].source = i /\ nodes[edges[j].target].state = "infected"
                   \/ edges[j].target = i /\ nodes[edges[j].source].state = "infected"
      ]_vars

\* C20: an infected node whose quarantine check succeeds in a local step (the
\* step has called startQuarantineAnimation for it, so it has a new animation
\* record and a saved position) is quarantined after the step.
C20_QuarantineWinsTheStep ==
    [][ (lastOp' = "fallbackStep" /\ step' = step + 1) =>
          \A i \in DOMAIN nodes :
             ( /\ nodes[i].state = "infected"
               /\ nodes[i].id \notin DOMAIN nodeAnimations
               /\ nodes'[i].id \in DOMAIN nodeAnimations' ) =>
                nodes'[i].state = "quarantined" ]_vars

C22_ModeChosenOnce ==
    [][ phase # "probe" => backendConnected' = backendConnected ]_vars

\* C22 witness: the probe found the service, a run was started and a step
\* request has failed since.
C22_Witness ==
    /\ phase = "ready"
    /\ backendConnected
    /\ runs > 0
    /\ lastOp = "stepFailed"
    /\ ~running

\* C23: whenever a handler other than reset() and the reload of the network
\* takes a node out of quarantined, it starts an animation from the node's
\* position to its saved position; the saved position is cleared by the frame
\* that completes an animation of a node that is not quarantined, and by
\* nothing else.
C23_ReturnAnimationClearsSavedPosition ==
    [][ lastOp' \notin {"reset", "networkAnswered"} =>
          \A i \in (DOMAIN nodes) \cap (DOMAIN nodes') :
             LET id == nodes[i].id
                 completes == /\ id \in DOMAIN nodeAnimations
                              /\ id \notin DOMAIN nodeAnimations'
                              /\ Progress(nodeAnimations[id]) >= 1000
             IN  /\ (nodes[i].state = "quarantined" /\ nodes'[i].state # "quarantined") =>
                       /\ id \in DOMAIN nodeAnimations'
                       /\ nodeAnimations'[id] =
                             [startX |-> nodes'[i].x, startY |-> nodes'[i].y,
                              targetX |-> nodes[i].originalX,
                              targetY |-> nodes[i].originalY,
                              elapsed |-> 0, duration |-> ANIMATION_DURATION]
                 /\ (nodes[i].originalX # Undefined /\ nodes'[i].originalX = Undefined) =>
                       completes
                 /\ (completes /\ nodes[i].state # "quarantined") =>
                       nodes'[i].originalX = Undefined ]_vars

\* C24: a frame removes the records without a node, removes the records whose
\* progress has reached 1 and puts their nodes exactly on the target, and
\* leaves every other record as it is.
C24_RecordsRemovedOnCompletion ==
    [][ EaseFrame =>
          \A id \in DOMAIN nodeAnimations :
             IF FindNode(nodes, id) = {}
             THEN id \notin DOMAIN nodeAnimations'
             ELSE IF Progress(nodeAnimations[id]) >= 1000
             THEN /\ id \notin DOMAIN nodeAnimations'
                  /\ \A i \in FindNode(nodes, id) :
                        /\ nodes'[i].x = nodeAnimations[id].targetX
                        /\ nodes'[i].y = nodeAnimations[id].targetY
             ELSE /\ id \in DOMAIN nodeAnimations'
                  /\ nodeAnimations'[id] = nodeAnimations[id] ]_vars

\* C24 witness: the population has lost a node that had a record; frames have
\* removed that record and, at progress 1, the record of a node that now
\* stands on its quarantine slot.
C24_Witness ==
    /\ phase = "ease"
    /\ lastOp = "frame"
    /\ Cardinality(DOMAIN nodes) < NodeCount
    /\ nodeAnimations = NoAnimations
    /\ \E i \in DOMAIN nodes :
          /\ nodes[i].state = "quarantined"
          /\ nodes[i].x = FinalX(nodes[i].id)
          /\ nodes[i].y = FinalY(nodes[i].id)

\* C25: a step that moves a node into quarantined saves the node's position
\* if no position is saved for it, and leaves an already saved position as it
\* is.
C25_SavedPositionSetOnce ==
    [][ EaseStepAnswered =>
          \A i \in DOMAIN nodes :
             (nodes[i].state # "quarantined" /\ nodes'[i].state = "quarantined") =>
                IF nodes[i].originalX = Undefined /\ nodes[i].originalY = Undefined
                THEN /\ nodes'[i].originalX = nodes[i].x
                     /\ nodes'[i].originalY = nodes[i].y
                ELSE /\ nodes'[i].originalX = nodes[i].originalX
                     /\ nodes'[i].originalY = nodes[i].originalY ]_vars

\* C26: the target of the animation of a quarantined node is the centre of
\* the cell (id mod 10, (id mod 100) div 10) of a grid of ten by ten cells over
\* the quarantine rectangle, a function of the identity alone, and lies
\* strictly inside the rectangle.
C26_SlotInsideQuarantineArea ==
    \A i \in DOMAIN nodes :
       (nodes[i].state = "quarantined" /\ nodes[i].id \in DOMAIN nodeAnimations) =>
          LET anim == nodeAnimations[nodes[i].id]
              col  == nodes[i].id % 10
              row  == (nodes[i].id % 100) \div 10
              cellW == QUARANTINE_AREA.width \div 10
              cellH == QUARANTINE_AREA.height \div 10
          IN  /\ 2 * anim.targetX = 2 * QUARANTINE_AREA.x + (2 * col + 1) * cellW
              /\ 2 * anim.targetY = 2 * QUARANTINE_AREA.y + (2 * row + 1) * cellH
              /\ anim.targetX > QUARANTINE_AREA.x
              /\ anim.targetX < QUARANTINE_AREA.x + QUARANTINE_AREA.width
              /\ anim.targetY > QUARANTINE_AREA.y
              /\ anim.targetY < QUARANTINE_AREA.y + QUARANTINE_AREA.height

\* C26 witness: a node with an identity above 100, in the last column of the
\* grid, has just been quarantined.
C26_Witness ==
    /\ phase = "ease"
    /\ lastOp = "stepAnswered"
    /\ \E i \in DOMAIN nodes :
          /\ nodes[i].id > 100
          /\ nodes[i].id % 10 = 9
          /\ nodes[i].state = "quarantined"
          /\ nodes[i].id \in DOMAIN nodeAnimations
          /\ nodeAnimations[nodes[i].id].elapsed = 0

\* C27: every node whose edges have been drawn is the source of 3 to 5 edges,
\* with pairwise distinct targets other than itself, and both endpoints of
\* every edge are identities of the population.
C27_DegreeWithinRange ==
    phase = "topology" =>
       /\ \A i \in 0 .. (step - 1) :
             LET out == {j \in 1 .. Len(edges) : edges[j].source = i}
             IN  /\ Cardinality(out) \in ConnectionCounts
                 /\ \A j \in out : edges[j].target # i
                 /\ \A j, k \in out : edges[j].target = edges[k].target => j = k
       /\ \A j \in 1 .. Len(edges) :
             /\ \E i \in DOMAIN nodes : nodes[i].id = edges[j].source
             /\ \E i \in DOMAIN nodes : nodes[i].id = edges[j].target

\* The nodes of machine m stand where they stand now, except those that the
\* frame run by the handler has moved along their animation record.
MovedByAnimationOnly(m) ==
    \A i \in DOMAIN nodes :
       (m.nodes[i].x # nodes[i].x \/ m.nodes[i].y # nodes[i].y) =>
          /\ nodes[i].id \in DOMAIN nodeAnimations
          /\ m.nodes[i].x = AnimatedNode(nodes[i], nodeAnimations[nodes[i].id]).x
          /\ m.nodes[i].y = AnimatedNode(nodes[i], nodeAnimations[nodes[i].id]).y

\* C28: wherever a step answer is pending, applying an answer of the legacy
\* shape gives every node the compartment the answer names and moves no node,
\* except along its animation record.
C28_LegacyAnswerKeepsPositions ==
    (phase = "ready" /\ stepRequests > 0) =>
       \A data \in StepResponses(Machine) :
          (data.kind = "data" /\ data.shape = "node_states") =>
             LET m == FinishStep(Machine, data)
             IN  /\ MovedByAnimationOnly(m)
                 /\ \A i \in DOMAIN nodes : m.nodes[i].state = data.states[nodes[i].id]

\* C28 witness: a step answer is pending while a quarantined node stands on
\* its slot without a record, where an answer with positions would put it
\* back on its place.
C28_Witness ==
    /\ phase = "ready"
    /\ stepRequests > 0
    /\ \E i \in DOMAIN nodes :
          /\ nodes[i].state = "quarantined"
          /\ nodes[i].id \notin DOMAIN nodeAnimations
          /\ nodes[i].x = FinalX(nodes[i].id)
          /\ \E data \in StepResponses(Machine) :
                /\ data.kind = "data"
                /\ data.shape = "nodes"
                /\ FinishStep(Machine, data).nodes[i].x # nodes[i].x

ResetState ==
    /\ \A i \in DOMAIN nodes : nodes[i].state = "healthy"
    /\ step = 0
    /\ chartData = EmptyChart

\* C29: a step answer of the service that arrives after a click on reset and
\* before the next click on start leaves the reset state as it is: every node
\* healthy, the step counter 0, the chart empty.
C29_StaleAnswerLeavesResetState ==
    [][ (StepAnswered /\ lastClick = "reset" /\ ResetState) => ResetState' ]_vars

\* C30: at most one animation-frame callback is pending at any time, the
\* callback of the current handle and those of older handles counted together.
C30_OneFrameChain ==
    (IF rafCurrent THEN 1 ELSE 0) + rafStale <= 1

InQuarantineArea(node) ==
    /\ node.x >= QUARANTINE_AREA.x
    /\ node.x <= QUARANTINE_AREA.x + QUARANTINE_AREA.width
    /\ node.y >= QUARANTINE_AREA.y
    /\ node.y <= QUARANTINE_AREA.y + QUARANTINE_AREA.height

\* C31: in local mode, while no animation record exists, a node that stands
\* inside the quarantine rectangle is quarantined.
C31_OnlyQuarantinedInQuarantineArea ==
    (phase = "ready" /\ ~backendConnected /\ nodeAnimations = NoAnimations) =>
       \A i \in DOMAIN nodes :
          InQuarantineArea(nodes[i]) => nodes[i].state = "quarantined"

\* C32: while the run is not active and neither a start request nor a stop
\* request awaits its answer, the start control is enabled and the pause
\* control is disabled.
C32_ControlsAgreeWithRunState ==
    (phase = "ready" /\ ~running /\ startRequests = 0 /\ stopRequests = 0) =>
       /\ startBtnDisabled = running
       /\ pauseBtnDisabled = ~running

====
